---- MODULE Spec2Model ----
(***************************************************************************)
(* Study-Planner: the persistence layer (backend/database.py, SupabaseDB)  *)
(* and the conversation client (backend/gemini_client.py, GeminiClient).   *)
(*                                                                         *)
(* Tables are sequences of rows in insertion order.  Row ids are generated *)
(* by the store; no table that carries an id ever loses a row, so the next *)
(* id is the table's length plus one.  Text that the code inspects         *)
(* (diagram code) is a sequence of one-character strings; text it only     *)
(* stores and compares (session ids, message contents, titles of           *)
(* roadmaps) is a TLA+ string.                                             *)
(*                                                                         *)
(* Every store call can raise: each operation takes the set `fails` of the *)
(* call sites that raise in this invocation.  The methods that only read   *)
(* (get_roadmaps, get_roadmap_items, get_roadmap_progress) change nothing: *)
(* they are operators, and the properties evaluate them in every state.    *)
(***************************************************************************)
EXTENDS Integers, Sequences, FiniteSets, TLC

VARIABLES
    conversations,            \* table conversations: [id, session_id]
    messages,                 \* table messages: [conversation_id, role, content]
    roadmaps,                 \* table roadmaps: [id, conversation_id, title, mermaid_diagram]
    roadmap_items,            \* table roadmap_items: [id, roadmap_id, item_id, title, description, completed, completed_at]
    use_database,             \* GeminiClient.use_database (self.db is set exactly when it is true)
    conversation_history,     \* GeminiClient.conversation_history
    current_conversation_id,  \* GeminiClient.current_conversation_id
    last                      \* the last call: its arguments, what it returned, what it saw

vars == <<conversations, messages, roadmaps, roadmap_items,
          use_database, conversation_history, current_conversation_id, last>>

client == <<use_database, conversation_history, current_conversation_id>>

-----------------------------------------------------------------------------
(* Bounds of the model *)

MaxConversations == 2
MaxRoadmaps == 2
MaxHistory == 3
\* the longest text given to the text functions, in tokens
MaxTokens == 4

-----------------------------------------------------------------------------
(* Values *)

None == 0
\* a value of datetime.utcnow() in a column the code writes and never compares
Stamp == 1
NoSession == ""

Sessions == {"s1", "s2"}
\* "plan": a message with no search directive; "ok": a reply with no diagram
UserMessages == {<<"p", "l", "a", "n">>}
Replies == {<<"o", "k">>}
Titles == {"Roadmap: plan"}

\* A[x]>B[y] : two nodes with different identifiers
DiagramTwo == <<"A", "[", "x", "]", ">", "B", "[", " ", "y", "]">>
\* A[x]>A[y] : the same identifier declared twice
DiagramDup == <<"A", "[", "x", "]", ">", "A", "[", "y", "]">>
\* a>b : no node declaration at all
DiagramNone == <<"a", ">", "b">>
Diagrams == {DiagramTwo, DiagramDup, DiagramNone}

Upper == {"A", "B", "C", "D", "E", "F", "G", "H", "I", "J", "K", "L", "M",
          "N", "O", "P", "Q", "R", "S", "T", "U", "V", "W", "X", "Y", "Z"}
Lower == {"a", "b", "c", "d", "e", "f", "g", "h", "i", "j", "k", "l", "m",
          "n", "o", "p", "q", "r", "s", "t", "u", "v", "w", "x", "y", "z"}
Digit == {"0", "1", "2", "3", "4", "5", "6", "7", "8", "9"}
\* \w; of the letters outside ASCII, the two the texts of the model can hold
WordChar == Upper \cup Lower \cup Digit \cup {"_", "u0130", "u0131"}
\* "u00a0" stands for the no-break space, which str.strip and \s take as whitespace
Whitespace == {" ", "\t", "\n", "\r", "u00a0"}

UpperSeq == <<"A", "B", "C", "D", "E", "F", "G", "H", "I", "J", "K", "L", "M",
              "N", "O", "P", "Q", "R", "S", "T", "U", "V", "W", "X", "Y", "Z">>
LowerSeq == <<"a", "b", "c", "d", "e", "f", "g", "h", "i", "j", "k", "l", "m",
              "n", "o", "p", "q", "r", "s", "t", "u", "v", "w", "x", "y", "z">>

-----------------------------------------------------------------------------
(* Helpers over sequences *)

Range(s) == {s[i] : i \in 1..Len(s)}

RECURSIVE lstrip(_)
lstrip(s) == IF s # <<>> /\ Head(s) \in Whitespace THEN lstrip(Tail(s)) ELSE s

RECURSIVE rstrip(_)
rstrip(s) == IF s # <<>> /\ s[Len(s)] \in Whitespace
             THEN rstrip(SubSeq(s, 1, Len(s) - 1)) ELSE s

strip(s) == rstrip(lstrip(s))

\* the lower-case letter of an upper-case letter
lower_letter(c) == LowerSeq[CHOOSE k \in 1..Len(UpperSeq) : UpperSeq[k] = c]

\* str.lower.  The result can be longer than the text: the capital I with a
\* dot above ("u0130") becomes an i followed by the combining dot ("u0307").
RECURSIVE lower(_)
lower(s) ==
    IF s = <<>> THEN <<>>
    ELSE (IF Head(s) \in Upper THEN <<lower_letter(Head(s))>>
          ELSE IF Head(s) = "u0130" THEN <<"i", "u0307">>
          ELSE <<Head(s)>>) \o lower(Tail(s))

\* The text as a pattern compiled with re.IGNORECASE sees it, character by
\* character: a letter matches in either case, and i also matches the capital
\* I with a dot above and the dotless i ("u0131").
ignorecase(s) == [i \in 1..Len(s) |->
                    IF s[i] \in Upper THEN lower_letter(s[i])
                    ELSE IF s[i] \in {"u0130", "u0131"} THEN "i"
                    ELSE s[i]]

\* str.startswith
startswith(s, prefix) == Len(s) >= Len(prefix) /\ SubSeq(s, 1, Len(prefix)) = prefix

\* str.find from index i: the first index >= i at which sub occurs in s, 0 if none
\* (the code's -1: indices here start at 1)
RECURSIVE find(_, _, _)
find(s, sub, i) ==
    IF i + Len(sub) - 1 > Len(s) THEN 0
    ELSE IF SubSeq(s, i, i + Len(sub) - 1) = sub THEN i
    ELSE find(s, sub, i + 1)

\* sub in s
contains(s, sub) == find(s, sub, 1) # 0

\* the first index >= i of s whose character is not in set, Len(s)+1 if none
RECURSIVE SkipWhile(_, _, _)
SkipWhile(s, i, set) == IF i <= Len(s) /\ s[i] \in set THEN SkipWhile(s, i + 1, set) ELSE i

\* the first index >= i of s whose character is c, Len(s)+1 if none
RECURSIVE IndexFrom(_, _, _)
IndexFrom(s, i, c) == IF i <= Len(s) /\ s[i] # c THEN IndexFrom(s, i + 1, c) ELSE i

\* the row of a non-empty set with the greatest (desc) or the least created_at
FirstBy(rows, desc) == CHOOSE r \in rows : \A q \in rows :
                           IF desc THEN q.created_at <= r.created_at
                                   ELSE r.created_at <= q.created_at

-----------------------------------------------------------------------------
(* backend/database.py: class SupabaseDB.  Each operator is one method:    *)
(* it takes the tables it touches and returns what the method returns      *)
(* (ret) together with the tables as the call leaves them.                 *)

\* Time.  datetime.utcnow() grows strictly from one insert to the next, and the
\* code reads created_at only to order the rows of one table.  A table is kept
\* in insertion order and a row's created_at is its rank in that order.
created_at(rows) == [i \in 1..Len(rows) |-> [row |-> rows[i], created_at |-> i]]

db_create_conversation(convs, session_id, fails) ==
    IF "conversations.insert" \in fails
    THEN [ret |-> None, conversations |-> convs]
    ELSE LET id == Len(convs) + 1
             row == [id |-> id, session_id |-> session_id]
         IN [ret |-> IF "conversations.insert.nodata" \in fails THEN None ELSE id,
             conversations |-> Append(convs, row)]

\* mutant: the lookup is skipped and a row is inserted on every call
db_get_or_create_conversation_always_creates(convs, session_id, fails) ==
    IF "conversations.select" \in fails
    THEN [ret |-> None, conversations |-> convs]
    ELSE db_create_conversation(convs, session_id, fails)

\* mutant: order("created_at", desc=False), the oldest row of the session wins
db_get_or_create_conversation_oldest(convs, session_id, fails) ==
    IF "conversations.select" \in fails
    THEN [ret |-> None, conversations |-> convs]
    ELSE LET found == {r \in Range(created_at(convs)) : r.row.session_id = session_id}
         IN IF found # {}
            THEN [ret |-> FirstBy(found, FALSE).row.id, conversations |-> convs]
            ELSE db_create_conversation(convs, session_id, fails)

db_get_or_create_conversation(convs, session_id, fails) ==
    IF "conversations.select" \in fails
    THEN [ret |-> None, conversations |-> convs]
    ELSE LET found == {r \in Range(created_at(convs)) : r.row.session_id = session_id}
         IN IF found # {}
            THEN [ret |-> FirstBy(found, TRUE).row.id, conversations |-> convs]
            ELSE db_create_conversation(convs, session_id, fails)

db_save_message(msgs, conversation_id, role, content, fail) ==
    IF fail
    THEN [ret |-> FALSE, messages |-> msgs]
    ELSE [ret |-> TRUE,
          messages |-> Append(msgs, [conversation_id |-> conversation_id, role |-> role,
                                     content |-> content])]

db_get_conversation_history(msgs, conversation_id, fail) ==
    IF fail THEN <<>>
    ELSE LET rows == SortSeq(SelectSeq(created_at(msgs),
                                       LAMBDA m : m.row.conversation_id = conversation_id),
                             LAMBDA a, b : a.created_at < b.created_at)
         IN [i \in 1..Len(rows) |-> [role |-> rows[i].row.role, content |-> rows[i].row.content]]

\* mutant: the delete keeps the assistant's rows
db_clear_conversation_user_rows(msgs, conversation_id, fail) ==
    IF fail
    THEN [ret |-> FALSE, messages |-> msgs]
    ELSE [ret |-> TRUE,
          messages |-> SelectSeq(msgs, LAMBDA m : m.conversation_id # conversation_id
                                                  \/ m.role = "assistant")]

db_clear_conversation(msgs, conversation_id, fail) ==
    IF fail
    THEN [ret |-> FALSE, messages |-> msgs]
    ELSE [ret |-> TRUE,
          messages |-> SelectSeq(msgs, LAMBDA m : m.conversation_id # conversation_id)]

\* mutant: the roadmap row is rolled back when the items cannot be inserted
db_save_roadmap_rollback(rms, its, conversation_id, title, mermaid_diagram, items, fails) ==
    IF "roadmaps.insert" \in fails
    THEN [ret |-> None, roadmaps |-> rms, roadmap_items |-> its]
    ELSE LET roadmap_id == Len(rms) + 1
             row == [id |-> roadmap_id, conversation_id |-> conversation_id, title |-> title,
                     mermaid_diagram |-> mermaid_diagram]
             items_data == [n \in 1..Len(items) |->
                               [id |-> Len(its) + n, roadmap_id |-> roadmap_id,
                                item_id |-> items[n].id, title |-> items[n].title,
                                description |-> items[n].description,
                                completed |-> FALSE, completed_at |-> None]]
         IN IF "roadmaps.insert.nodata" \in fails
            THEN [ret |-> None, roadmaps |-> Append(rms, row), roadmap_items |-> its]
            ELSE IF items_data # <<>> /\ "roadmap_items.insert" \in fails
            THEN [ret |-> None, roadmaps |-> rms, roadmap_items |-> its]
            ELSE [ret |-> roadmap_id, roadmaps |-> Append(rms, row),
                  roadmap_items |-> its \o items_data]

\* mutant: only the first item is inserted
db_save_roadmap_first_item(rms, its, conversation_id, title, mermaid_diagram, items, fails) ==
    IF "roadmaps.insert" \in fails
    THEN [ret |-> None, roadmaps |-> rms, roadmap_items |-> its]
    ELSE LET roadmap_id == Len(rms) + 1
             row == [id |-> roadmap_id, conversation_id |-> conversation_id, title |-> title,
                     mermaid_diagram |-> mermaid_diagram]
             items_data == [n \in 1..(IF items = <<>> THEN 0 ELSE 1) |->
                               [id |-> Len(its) + n, roadmap_id |-> roadmap_id,
                                item_id |-> items[n].id, title |-> items[n].title,
                                description |-> items[n].description,
                                completed |-> FALSE, completed_at |-> None]]
         IN IF "roadmaps.insert.nodata" \in fails
            THEN [ret |-> None, roadmaps |-> Append(rms, row), roadmap_items |-> its]
            ELSE IF items_data # <<>> /\ "roadmap_items.insert" \in fails
            THEN [ret |-> None, roadmaps |-> Append(rms, row), roadmap_items |-> its]
            ELSE [ret |-> roadmap_id, roadmaps |-> Append(rms, row),
                  roadmap_items |-> its \o items_data]

db_save_roadmap(rms, its, conversation_id, title, mermaid_diagram, items, fails) ==
    IF "roadmaps.insert" \in fails
    THEN [ret |-> None, roadmaps |-> rms, roadmap_items |-> its]
    ELSE LET roadmap_id == Len(rms) + 1
             row == [id |-> roadmap_id, conversation_id |-> conversation_id, title |-> title,
                     mermaid_diagram |-> mermaid_diagram]
             items_data == [n \in 1..Len(items) |->
                               [id |-> Len(its) + n, roadmap_id |-> roadmap_id,
                                item_id |-> items[n].id, title |-> items[n].title,
                                description |-> items[n].description,
                                completed |-> FALSE, completed_at |-> None]]
         IN IF "roadmaps.insert.nodata" \in fails
            THEN [ret |-> None, roadmaps |-> Append(rms, row), roadmap_items |-> its]
            ELSE IF items_data # <<>> /\ "roadmap_items.insert" \in fails
            THEN [ret |-> None, roadmaps |-> Append(rms, row), roadmap_items |-> its]
            ELSE [ret |-> roadmap_id, roadmaps |-> Append(rms, row),
                  roadmap_items |-> its \o items_data]

db_get_roadmaps(rms, conversation_id, fail) ==
    IF fail THEN <<>>
    ELSE LET rows == SortSeq(SelectSeq(created_at(rms),
                                       LAMBDA r : r.row.conversation_id = conversation_id),
                             LAMBDA a, b : a.created_at > b.created_at)
         IN [i \in 1..Len(rows) |->
                [id |-> rows[i].row.id, title |-> rows[i].row.title,
                 mermaid_diagram |-> rows[i].row.mermaid_diagram,
                 created_at |-> rows[i].created_at]]

\* text order of two item ids, as ORDER BY item_id compares them
CharOrder == <<"0", "1", "2", "3", "4", "5", "6", "7", "8", "9",
               "A", "B", "C", "D", "E", "F", "G", "H", "I", "J", "K", "L", "M",
               "N", "O", "P", "Q", "R", "S", "T", "U", "V", "W", "X", "Y", "Z", "_",
               "a", "b", "c", "d", "e", "f", "g", "h", "i", "j", "k", "l", "m",
               "n", "o", "p", "q", "r", "s", "t", "u", "v", "w", "x", "y", "z">>
Ord(c) == IF c \in Range(CharOrder) THEN CHOOSE i \in 1..Len(CharOrder) : CharOrder[i] = c ELSE 0

RECURSIVE TextLess(_, _)
TextLess(a, b) ==
    IF b = <<>> THEN FALSE
    ELSE IF a = <<>> THEN TRUE
    ELSE IF Head(a) = Head(b) THEN TextLess(Tail(a), Tail(b))
    ELSE Ord(Head(a)) < Ord(Head(b))

\* select("id, item_id, title, description, completed, completed_at")
Selected(it) == [id |-> it.id, item_id |-> it.item_id, title |-> it.title,
                 description |-> it.description, completed |-> it.completed,
                 completed_at |-> it.completed_at]

\* mutant: the eq("roadmap_id", ...) filter is missing
db_get_roadmap_items_unfiltered(its, roadmap_id, fail) ==
    IF fail THEN <<>>
    ELSE LET rows == SortSeq(its, LAMBDA a, b : TextLess(a.item_id, b.item_id))
         IN [n \in 1..Len(rows) |-> Selected(rows[n])]

\* Rows with equal item_id come in insertion order here; the store promises
\* no order among them, and nothing below depends on it.
db_get_roadmap_items(its, roadmap_id, fail) ==
    IF fail THEN <<>>
    ELSE LET rows == SortSeq(SelectSeq(its, LAMBDA it : it.roadmap_id = roadmap_id),
                             LAMBDA a, b : TextLess(a.item_id, b.item_id))
         IN [n \in 1..Len(rows) |-> Selected(rows[n])]

\* mutant: un-completing an item deletes its row
db_update_item_progress_deletes(its, item_id, completed, fail) ==
    IF fail
    THEN [ret |-> FALSE, roadmap_items |-> its]
    ELSE [ret |-> TRUE,
          roadmap_items |-> IF completed
                            THEN [n \in 1..Len(its) |->
                                     IF its[n].id = item_id
                                     THEN [its[n] EXCEPT !.completed = TRUE, !.completed_at = Stamp]
                                     ELSE its[n]]
                            ELSE SelectSeq(its, LAMBDA it : it.id # item_id)]

\* mutant: completed_at is stamped on completion and never cleared
db_update_item_progress_keeps_stamp(its, item_id, completed, fail) ==
    IF fail
    THEN [ret |-> FALSE, roadmap_items |-> its]
    ELSE [ret |-> TRUE,
          roadmap_items |-> [n \in 1..Len(its) |->
              IF its[n].id = item_id
              THEN [its[n] EXCEPT !.completed = completed,
                                  !.completed_at = IF completed THEN Stamp ELSE @]
              ELSE its[n]]]

\* mutant: the update matches every item of the roadmap of the item, not the one row
db_update_item_progress_whole_roadmap(its, item_id, completed, fail) ==
    IF fail
    THEN [ret |-> FALSE, roadmap_items |-> its]
    ELSE [ret |-> TRUE,
          roadmap_items |-> [n \in 1..Len(its) |->
              IF \E m \in 1..Len(its) : its[m].id = item_id /\ its[m].roadmap_id = its[n].roadmap_id
              THEN [its[n] EXCEPT !.completed = completed,
                                  !.completed_at = IF completed THEN Stamp ELSE None]
              ELSE its[n]]]

\* mutant: the update matches the rows by the node identifier of the item
db_update_item_progress_by_node(its, item_id, completed, fail) ==
    IF fail
    THEN [ret |-> FALSE, roadmap_items |-> its]
    ELSE [ret |-> TRUE,
          roadmap_items |-> [n \in 1..Len(its) |->
              IF \E m \in 1..Len(its) : its[m].id = item_id /\ its[m].item_id = its[n].item_id
              THEN [its[n] EXCEPT !.completed = completed,
                                  !.completed_at = IF completed THEN Stamp ELSE None]
              ELSE its[n]]]

\* mutant: completing an item clears the completion of every other item
db_update_item_progress_exclusive(its, item_id, completed, fail) ==
    IF fail
    THEN [ret |-> FALSE, roadmap_items |-> its]
    ELSE [ret |-> TRUE,
          roadmap_items |-> [n \in 1..Len(its) |->
              IF its[n].id = item_id
              THEN [its[n] EXCEPT !.completed = completed,
                                  !.completed_at = IF completed THEN Stamp ELSE None]
              ELSE IF completed
              THEN [its[n] EXCEPT !.completed = FALSE, !.completed_at = None]
              ELSE its[n]]]

db_update_item_progress(its, item_id, completed, fail) ==
    IF fail
    THEN [ret |-> FALSE, roadmap_items |-> its]
    ELSE [ret |-> TRUE,
          roadmap_items |-> [n \in 1..Len(its) |->
              IF its[n].id = item_id
              THEN [its[n] EXCEPT !.completed = completed,
                                  !.completed_at = IF completed THEN Stamp ELSE None]
              ELSE its[n]]]

\* progress_percentage is the exact quotient num/den
db_get_roadmap_progress(its, roadmap_id, fail) ==
    LET items == db_get_roadmap_items(its, roadmap_id, fail)
        total_items == Len(items)
        completed_items == Len(SelectSeq(items, LAMBDA it : it.completed))
    IN [total_items |-> total_items,
        completed_items |-> completed_items,
        progress_percentage |-> IF total_items > 0
                                THEN [num |-> completed_items * 100, den |-> total_items]
                                ELSE [num |-> 0, den |-> 1],
        items |-> items]

-----------------------------------------------------------------------------
(* backend/gemini_client.py: GeminiClient.parse_mermaid_diagram            *)

CompletePrefix == <<"C", "o", "m", "p", "l", "e", "t", "e", ":", " ">>

\* re.findall(r'([A-Z]\w*)\[([^\]]+)\]', text), scanning from index i.
\* [A-Z]\w* is greedy and the next character must be '[', which is no word
\* character, so the identifier is the whole run of word characters from i;
\* [^\]]+ runs to the first ']' and must not be empty.
RECURSIVE findall_nodes(_, _)
findall_nodes(text, i) ==
    IF i > Len(text) THEN <<>>
    ELSE LET j == SkipWhile(text, i + 1, WordChar)
             k == IndexFrom(text, j + 1, "]")
         IN IF /\ text[i] \in Upper
               /\ j <= Len(text)
               /\ text[j] = "["
               /\ k <= Len(text)
               /\ k > j + 1
            THEN <<[node_id |-> SubSeq(text, i, j - 1), label |-> SubSeq(text, j + 1, k - 1)]>>
                 \o findall_nodes(text, k + 1)
            ELSE findall_nodes(text, i + 1)

\* mutant: a node identifier that was already seen is skipped
parse_mermaid_diagram_dedup(mermaid_code) ==
    LET matches == findall_nodes(mermaid_code, 1)
        first == SelectSeq([n \in 1..Len(matches) |-> [n |-> n, m |-> matches[n]]],
                           LAMBDA e : \A k \in 1..(e.n - 1) : matches[k].node_id # e.m.node_id)
    IN [n \in 1..Len(first) |->
           [id |-> first[n].m.node_id,
            title |-> strip(first[n].m.label),
            description |-> CompletePrefix \o strip(first[n].m.label)]]

\* mutant: the label is taken as it is, not stripped
parse_mermaid_diagram_raw_label(mermaid_code) ==
    LET matches == findall_nodes(mermaid_code, 1)
    IN [n \in 1..Len(matches) |->
           [id |-> matches[n].node_id,
            title |-> matches[n].label,
            description |-> CompletePrefix \o matches[n].label]]

parse_mermaid_diagram(mermaid_code) ==
    LET matches == findall_nodes(mermaid_code, 1)
    IN [n \in 1..Len(matches) |->
           [id |-> matches[n].node_id,
            title |-> strip(matches[n].label),
            description |-> CompletePrefix \o strip(matches[n].label)]]

-----------------------------------------------------------------------------
(* frontend/front.py: extract_mermaid_diagrams and validate_and_clean_mermaid *)

\* The grave accent cannot be written in a string of this language: the
\* element "grave" of a text stands for that one character.
Backticks == <<"grave", "grave", "grave">>
Tildes == <<"~", "~", "~">>
Mermaid == <<"m", "e", "r", "m", "a", "i", "d">>
Flowchart == <<"f", "l", "o", "w", "c", "h", "a", "r", "t">>
Graph == <<"g", "r", "a", "p", "h">>
Classdef == <<"c", "l", "a", "s", "s", "d", "e", "f">>
Arrow == <<"-", "-", ">">>

\* sub occurs in s at index i
At(s, sub, i) == i >= 1 /\ i + Len(sub) - 1 <= Len(s) /\ SubSeq(s, i, i + Len(sub) - 1) = sub

\* One match of a fenced-block pattern  fence tag \s* (.*?) \s* fence  (DOTALL)
\* that starts at index p, where the tag has been matched up to index open - 1.
\* \s* takes the whole run of whitespace; the lazy group ends before the
\* whitespace that precedes the first closing fence.  close is 0 when there
\* is no closing fence, and then there is no match at p.
FencedMatch(s, open, fence) ==
    LET from == SkipWhile(s, open, Whitespace)
        close == find(s, fence, from)
    IN [ok |-> close # 0,
        group |-> IF close = 0 THEN <<>> ELSE rstrip(SubSeq(s, from, close - 1)),
        next |-> close + Len(fence)]

\* re.findall(r'```\s*mermaid\s*(.*?)\s*```', s, re.DOTALL | re.IGNORECASE) from index p
RECURSIVE findall_mermaid(_, _)
findall_mermaid(s, p) ==
    IF p > Len(s) THEN <<>>
    ELSE LET tag == SkipWhile(s, p + Len(Backticks), Whitespace)
             m == FencedMatch(s, tag + Len(Mermaid), Backticks)
         IN IF At(s, Backticks, p) /\ At(ignorecase(s), Mermaid, tag) /\ m.ok
            THEN <<m.group>> \o findall_mermaid(s, m.next)
            ELSE findall_mermaid(s, p + 1)

\* re.findall(r'```(?:\w+)?\s*(.*?)\s*```', s, re.DOTALL) from index p
RECURSIVE findall_backticks(_, _)
findall_backticks(s, p) ==
    IF p > Len(s) THEN <<>>
    ELSE LET m == FencedMatch(s, SkipWhile(s, p + Len(Backticks), WordChar), Backticks)
         IN IF At(s, Backticks, p) /\ m.ok
            THEN <<m.group>> \o findall_backticks(s, m.next)
            ELSE findall_backticks(s, p + 1)

\* re.findall(r'~~~\s*(.*?)\s*~~~', s, re.DOTALL) from index p
RECURSIVE findall_tildes(_, _)
findall_tildes(s, p) ==
    IF p > Len(s) THEN <<>>
    ELSE LET m == FencedMatch(s, p + Len(Tildes), Tildes)
         IN IF At(s, Tildes, p) /\ m.ok
            THEN <<m.group>> \o findall_tildes(s, m.next)
            ELSE findall_tildes(s, p + 1)

\* the lookahead (?=\n{2,}|$): two newlines at r, the end of the text, or the
\* last newline of the text
RECURSIVE BlockEnd(_, _)
BlockEnd(s, r) ==
    IF \/ r > Len(s)
       \/ At(s, <<"\n", "\n">>, r)
       \/ (r = Len(s) /\ s[r] = "\n")
    THEN r
    ELSE BlockEnd(s, r + 1)

\* re.findall(r'(?:(?:^|\n)(?:flowchart|graph)[\s\S]*?)(?=\n{2,}|$)', s, re.IGNORECASE)
\* from index p: a block starts at the start of the text or with a newline
RECURSIVE findall_inline(_, _)
findall_inline(s, p) ==
    IF p > Len(s) THEN <<>>
    ELSE LET word == IF p = 1 /\ (At(ignorecase(s), Flowchart, 1) \/ At(ignorecase(s), Graph, 1))
                     THEN 1
                     ELSE IF s[p] = "\n" THEN p + 1 ELSE 0
             after == IF At(ignorecase(s), Flowchart, word) THEN word + Len(Flowchart)
                      ELSE IF At(ignorecase(s), Graph, word) THEN word + Len(Graph)
                      ELSE 0
             r == BlockEnd(s, after)
         IN IF word # 0 /\ after # 0
            THEN <<SubSeq(s, p, r - 1)>> \o findall_inline(s, r)
            ELSE findall_inline(s, p + 1)

\* the candidates of a list of matches: each stripped, the empty ones dropped
Stripped(matches) ==
    SelectSeq([n \in 1..Len(matches) |-> strip(matches[n])], LAMBDA c : c # <<>>)

\* 1) explicit fenced mermaid blocks
fenced_mermaid(response_text) == Stripped(findall_mermaid(response_text, 1))

\* 2) generic fenced blocks (backticks first, then tildes) that look like mermaid
LooksLikeMermaid(c) ==
    \/ contains(lower(c), Flowchart) \/ contains(lower(c), Graph) \/ contains(lower(c), Classdef)
    \/ contains(c, Arrow)
    \/ (contains(c, <<"[">>) /\ contains(c, <<"]">>))

fenced_generic(response_text) ==
    SelectSeq(Stripped(findall_backticks(response_text, 1) \o findall_tildes(response_text, 1)),
              LooksLikeMermaid)

\* 3) blocks without fences that start with flowchart or graph
inline_blocks(response_text) == Stripped(findall_inline(response_text, 1))

\* mutant: the results of the three strategies are put together
extract_mermaid_diagrams_merged(response_text) ==
    IF response_text = <<>> THEN <<>>
    ELSE fenced_mermaid(response_text) \o fenced_generic(response_text)
         \o inline_blocks(response_text)

extract_mermaid_diagrams(response_text) ==
    IF response_text = <<>> THEN <<>>
    ELSE LET diagrams1 == fenced_mermaid(response_text)
             diagrams2 == IF diagrams1 = <<>> THEN fenced_generic(response_text) ELSE diagrams1
         IN IF diagrams2 = <<>> THEN inline_blocks(response_text) ELSE diagrams2

\* str.split on one character
RECURSIVE split(_, _)
split(s, sep) ==
    LET n == IndexFrom(s, 1, sep)
    IN IF n > Len(s) THEN <<s>>
       ELSE <<SubSeq(s, 1, n - 1)>> \o split(SubSeq(s, n + 1, Len(s)), sep)

\* sep.join(parts)
RECURSIVE join(_, _)
join(parts, sep) ==
    IF parts = <<>> THEN <<>>
    ELSE IF Len(parts) = 1 THEN parts[1]
    ELSE parts[1] \o <<sep>> \o join(Tail(parts), sep)

\* re.sub(r'^```\w*|```$', '', diagram_code): a fence with its tag at the start
\* of the text, and a fence at the end of the text or before its last newline
strip_fences(diagram_code) ==
    LET n == Len(diagram_code)
        first == IF At(diagram_code, Backticks, 1)
                 THEN SkipWhile(diagram_code, 1 + Len(Backticks), WordChar)
                 ELSE 1
        last_fence == IF n - 3 >= first /\ At(diagram_code, Backticks, n - 3)
                         /\ diagram_code[n] = "\n"
                      THEN n - 3
                      ELSE IF n - 2 >= first /\ At(diagram_code, Backticks, n - 2)
                      THEN n - 2
                      ELSE 0
    IN IF last_fence = 0 THEN SubSeq(diagram_code, first, n)
       ELSE SubSeq(diagram_code, first, last_fence - 1)
            \o SubSeq(diagram_code, last_fence + Len(Backticks), n)

\* The typographic quotes and the no-break space; each name stands for the
\* one character.
replace_quotes(s) ==
    [i \in 1..Len(s) |->
        CASE s[i] \in {"u201c", "u201d"} -> "\""
          [] s[i] \in {"u2018", "u2019"} -> "'"
          [] s[i] = "u00a0" -> " "
          [] OTHER -> s[i]]

\* ln.lstrip('> ').rstrip()
trim_line(ln) == rstrip(SubSeq(ln, SkipWhile(ln, 1, {">", " "}), Len(ln)))

MermaidComment == <<"%", "%", " ", "m", "e", "r", "m", "a", "i", "d">>
FlowchartTD == <<"f", "l", "o", "w", "c", "h", "a", "r", "t", " ", "T", "D", "\n">>
Sequence == <<"s", "e", "q", "u", "e", "n", "c", "e">>
Gantt == <<"g", "a", "n", "t", "t">>
ClassMark == <<":", ":", ":">>

\* the five lines of color_defs; what follows the word classDef in a line is
\* one element
color_defs ==
    <<"c", "l", "a", "s", "s", "D", "e", "f",
      " foundation fill:#4d94ff,color:#000,stroke:#333,stroke-width:2px", "\n",
      "c", "l", "a", "s", "s", "D", "e", "f",
      " core fill:#33cc33,color:#000,stroke:#333,stroke-width:2px", "\n",
      "c", "l", "a", "s", "s", "D", "e", "f",
      " practice fill:#ff9900,color:#000,stroke:#333,stroke-width:2px", "\n",
      "c", "l", "a", "s", "s", "D", "e", "f",
      " project fill:#9933ff,color:#fff,stroke:#333,stroke-width:2px", "\n",
      "c", "l", "a", "s", "s", "D", "e", "f",
      " review fill:#ff3333,color:#fff,stroke:#333,stroke-width:2px">>

\* mutant: the new element is put in front of the first one
insert_first(parts, x) == <<x>> \o parts

\* parts.insert(1, x)
insert1(parts, x) == <<Head(parts), x>> \o Tail(parts)

\* the result of validate_and_clean_mermaid: none is true when the function
\* returns None, and cleaned is the text it returns otherwise
NoDiagram == [none |-> TRUE, cleaned |-> <<>>]

\* the text after the fences are removed and its lines are trimmed (cleaned,
\* as it is when low is taken from it)
trimmed_lines(diagram_code) ==
    LET unfenced == replace_quotes(strip(strip_fences(diagram_code)))
        trimmed == [n \in 1..Len(split(unfenced, "\n")) |->
                       trim_line(split(unfenced, "\n")[n])]
        lines == SelectSeq(trimmed,
                           LAMBDA ln : ln # <<>> /\ ~startswith(ln, MermaidComment))
    IN strip(join(lines, "\n"))

validate_and_clean_mermaid(diagram_code) ==
    IF diagram_code = <<>> THEN NoDiagram
    ELSE LET cleaned == trimmed_lines(diagram_code)
             low == lower(cleaned)
             headed == IF \/ startswith(low, Flowchart) \/ startswith(low, Graph)
                          \/ startswith(low, Sequence) \/ startswith(low, Gantt)
                       THEN cleaned
                       ELSE IF contains(low, Flowchart)
                       THEN SubSeq(cleaned, find(low, Flowchart, 1), Len(cleaned))
                       ELSE IF contains(low, Graph)
                       THEN SubSeq(cleaned, find(low, Graph, 1), Len(cleaned))
                       ELSE FlowchartTD \o cleaned
         IN [none |-> FALSE,
             cleaned |-> IF ~contains(low, Classdef) /\ contains(headed, ClassMark)
                         THEN join(insert1(split(headed, "\n"), color_defs), "\n")
                         ELSE headed]

-----------------------------------------------------------------------------
(* backend/gemini_client.py: class GeminiClient.  Each operator is one     *)
(* method over the client's fields and the tables, returning both as the   *)
(* call leaves them.                                                       *)

\* mutant: the history of the client is kept when a conversation is set
set_conversation_id_keeps_history(conversation_id, use_db, history, msgs, fail) ==
    [current_conversation_id |-> conversation_id,
     conversation_history |-> history]

set_conversation_id(conversation_id, use_db, history, msgs, fail) ==
    [current_conversation_id |-> conversation_id,
     conversation_history |-> IF use_db
                              THEN db_get_conversation_history(msgs, conversation_id, fail)
                              ELSE history]

SearchColon == <<"s", "e", "a", "r", "c", "h", ":">>
SlashSearch == <<"/", "s", "e", "a", "r", "c", "h">>

\* None here is the empty sequence: the method never returns an empty string.
NoQuery == <<>>

detect_search_query(user_message) ==
    LET user_message_lower == strip(lower(user_message))
    IN IF startswith(user_message_lower, SearchColon)
       THEN strip(SubSeq(user_message, Len(SearchColon) + 1, Len(user_message)))
       ELSE IF startswith(user_message_lower, SlashSearch)
       THEN strip(SubSeq(user_message, Len(SlashSearch) + 1, Len(user_message)))
       ELSE NoQuery

\* Literal text that the code splices into a message and never inspects again
\* is one element of the sequence.
NoResultsNote == <<"(Note: Web search did not return results. Please respond based on your knowledge.)">>
ResultsHeader == <<"\n", "\n", "--- Web Search Results ---", "\n">>
CitationInstruction == <<"Please provide a helpful response based on these search results, citing sources with [1], [2], etc.">>

RECURSIVE search_context(_, _)
search_context(search_results, idx) ==
    IF idx > Len(search_results) THEN <<>>
    ELSE <<"\n", "[", ToString(idx), "]", " ", search_results[idx].title, "\n",
           "URL: ", search_results[idx].href, "\n",
           "Summary: ", search_results[idx].body, "\n">>
         \o search_context(search_results, idx + 1)

\* chat, lines 223-243; search_results is what perform_web_search returns
\* for the query when it is called
enhanced_message(user_message, search_query, search_results) ==
    IF search_query # NoQuery
    THEN IF search_results # <<>>
         THEN user_message \o <<"\n", "\n">> \o ResultsHeader
              \o search_context(search_results, 1) \o <<"\n", "\n">> \o CitationInstruction
         ELSE user_message \o <<"\n", "\n">> \o NoResultsNote
    ELSE user_message

\* f"Error generating response: {str(e)}"
ErrorReply == <<"Error generating response: ", "str(e)">>

\* mutant: the failure of generate_content is not turned into a reply
chat_error_not_returned(convs, msgs, use_db, history, current, user_message, session_id, search_results, reply, fails) ==
    LET with_db == use_db /\ session_id # NoSession
        resolve == with_db /\ current = None
        goc == IF resolve
               THEN db_get_or_create_conversation(convs, session_id, fails)
               ELSE [ret |-> None, conversations |-> convs]
        set == IF resolve /\ goc.ret # None
               THEN set_conversation_id(goc.ret, use_db, history, msgs, "messages.select" \in fails)
               ELSE [current_conversation_id |-> current,
                     conversation_history |->
                         IF with_db /\ current # None /\ history = <<>>
                         THEN db_get_conversation_history(msgs, current, "messages.select" \in fails)
                         ELSE history]
        conv == set.current_conversation_id
        search_query == detect_search_query(user_message)
        enhanced == enhanced_message(user_message, search_query, search_results)
        ai_response == strip(reply)
        history_u == Append(set.conversation_history, [role |-> "user", content |-> enhanced])
        saved_u == IF use_db /\ conv # None
                   THEN db_save_message(msgs, conv, "user", enhanced,
                                        "messages.insert.user" \in fails)
                   ELSE [ret |-> FALSE, messages |-> msgs]
        generated == "generate_content" \notin fails
        saved_a == IF generated /\ use_db /\ conv # None
                   THEN db_save_message(saved_u.messages, conv, "assistant", ai_response,
                                        "messages.insert.assistant" \in fails)
                   ELSE [ret |-> FALSE, messages |-> saved_u.messages]
    IN [ret |-> IF generated THEN ai_response ELSE <<>>,
        search_query |-> search_query,
        generated |-> generated,
        conversations |-> goc.conversations,
        messages |-> saved_a.messages,
        conversation_history |-> IF generated
                                 THEN Append(history_u, [role |-> "assistant", content |-> ai_response])
                                 ELSE history_u,
        current_conversation_id |-> conv,
        resolved |-> resolve,
        resolved_id |-> goc.ret,
        created |-> Len(goc.conversations) > Len(convs)]

\* mutant: a store call that raises ends the turn before the reply is kept
chat_aborts_on_store_failure(convs, msgs, use_db, history, current, user_message, session_id, search_results, reply, fails) ==
    LET with_db == use_db /\ session_id # NoSession
        resolve == with_db /\ current = None
        goc == IF resolve
               THEN db_get_or_create_conversation(convs, session_id, fails)
               ELSE [ret |-> None, conversations |-> convs]
        set == IF resolve /\ goc.ret # None
               THEN set_conversation_id(goc.ret, use_db, history, msgs, "messages.select" \in fails)
               ELSE [current_conversation_id |-> current,
                     conversation_history |->
                         IF with_db /\ current # None /\ history = <<>>
                         THEN db_get_conversation_history(msgs, current, "messages.select" \in fails)
                         ELSE history]
        conv == set.current_conversation_id
        search_query == detect_search_query(user_message)
        enhanced == enhanced_message(user_message, search_query, search_results)
        ai_response == strip(reply)
        history_u == Append(set.conversation_history, [role |-> "user", content |-> enhanced])
        saved_u == IF use_db /\ conv # None
                   THEN db_save_message(msgs, conv, "user", enhanced,
                                        "messages.insert.user" \in fails)
                   ELSE [ret |-> FALSE, messages |-> msgs]
        generated == "generate_content" \notin fails
        saved_a == IF generated /\ use_db /\ conv # None
                   THEN db_save_message(saved_u.messages, conv, "assistant", ai_response,
                                        "messages.insert.assistant" \in fails)
                   ELSE [ret |-> FALSE, messages |-> saved_u.messages]
    IN [ret |-> IF generated /\ (~use_db \/ fails = {}) THEN ai_response ELSE ErrorReply,
        search_query |-> search_query,
        generated |-> generated,
        conversations |-> goc.conversations,
        messages |-> saved_a.messages,
        conversation_history |-> IF generated /\ (~use_db \/ fails = {})
                                 THEN Append(history_u, [role |-> "assistant", content |-> ai_response])
                                 ELSE history_u,
        current_conversation_id |-> conv,
        resolved |-> resolve,
        resolved_id |-> goc.ret,
        created |-> Len(goc.conversations) > Len(convs)]

\* mutant: a client that already holds turns in memory does not ask the store again
chat_gives_up_on_the_store(convs, msgs, use_db, history, current, user_message, session_id, search_results, reply, fails) ==
    LET with_db == use_db /\ session_id # NoSession
        resolve == with_db /\ current = None /\ history = <<>>
        goc == IF resolve
               THEN db_get_or_create_conversation(convs, session_id, fails)
               ELSE [ret |-> None, conversations |-> convs]
        set == IF resolve /\ goc.ret # None
               THEN set_conversation_id(goc.ret, use_db, history, msgs, "messages.select" \in fails)
               ELSE [current_conversation_id |-> current,
                     conversation_history |->
                         IF with_db /\ current # None /\ history = <<>>
                         THEN db_get_conversation_history(msgs, current, "messages.select" \in fails)
                         ELSE history]
        conv == set.current_conversation_id
        search_query == detect_search_query(user_message)
        enhanced == enhanced_message(user_message, search_query, search_results)
        ai_response == strip(reply)
        history_u == Append(set.conversation_history, [role |-> "user", content |-> enhanced])
        saved_u == IF use_db /\ conv # None
                   THEN db_save_message(msgs, conv, "user", enhanced,
                                        "messages.insert.user" \in fails)
                   ELSE [ret |-> FALSE, messages |-> msgs]
        generated == "generate_content" \notin fails
        saved_a == IF generated /\ use_db /\ conv # None
                   THEN db_save_message(saved_u.messages, conv, "assistant", ai_response,
                                        "messages.insert.assistant" \in fails)
                   ELSE [ret |-> FALSE, messages |-> saved_u.messages]
    IN [ret |-> IF generated THEN ai_response ELSE ErrorReply,
        search_query |-> search_query,
        generated |-> generated,
        conversations |-> goc.conversations,
        messages |-> saved_a.messages,
        conversation_history |-> IF generated
                                 THEN Append(history_u, [role |-> "assistant", content |-> ai_response])
                                 ELSE history_u,
        current_conversation_id |-> conv,
        resolved |-> resolve,
        resolved_id |-> goc.ret,
        created |-> Len(goc.conversations) > Len(convs)]

\* chat is called without user settings (user_settings = None).
chat(convs, msgs, use_db, history, current, user_message, session_id, search_results, reply, fails) ==
    LET with_db == use_db /\ session_id # NoSession
        resolve == with_db /\ current = None
        goc == IF resolve
               THEN db_get_or_create_conversation(convs, session_id, fails)
               ELSE [ret |-> None, conversations |-> convs]
        set == IF resolve /\ goc.ret # None
               THEN set_conversation_id(goc.ret, use_db, history, msgs, "messages.select" \in fails)
               ELSE [current_conversation_id |-> current,
                     conversation_history |->
                         IF with_db /\ current # None /\ history = <<>>
                         THEN db_get_conversation_history(msgs, current, "messages.select" \in fails)
                         ELSE history]
        conv == set.current_conversation_id
        search_query == detect_search_query(user_message)
        enhanced == enhanced_message(user_message, search_query, search_results)
        ai_response == strip(reply)
        history_u == Append(set.conversation_history, [role |-> "user", content |-> enhanced])
        saved_u == IF use_db /\ conv # None
                   THEN db_save_message(msgs, conv, "user", enhanced,
                                        "messages.insert.user" \in fails)
                   ELSE [ret |-> FALSE, messages |-> msgs]
        generated == "generate_content" \notin fails
        saved_a == IF generated /\ use_db /\ conv # None
                   THEN db_save_message(saved_u.messages, conv, "assistant", ai_response,
                                        "messages.insert.assistant" \in fails)
                   ELSE [ret |-> FALSE, messages |-> saved_u.messages]
    IN [ret |-> IF generated THEN ai_response ELSE ErrorReply,
        search_query |-> search_query,
        generated |-> generated,
        conversations |-> goc.conversations,
        messages |-> saved_a.messages,
        conversation_history |-> IF generated
                                 THEN Append(history_u, [role |-> "assistant", content |-> ai_response])
                                 ELSE history_u,
        current_conversation_id |-> conv,
        resolved |-> resolve,
        resolved_id |-> goc.ret,
        created |-> Len(goc.conversations) > Len(convs)]

\* mutant: the reset clears the messages and the history and keeps the
\* conversation id
reset_conversation_keeps_id(msgs, use_db, current, fails) ==
    [messages |-> IF use_db /\ current # None
                  THEN db_clear_conversation(msgs, current, "messages.delete" \in fails).messages
                  ELSE msgs,
     conversation_history |-> <<>>,
     current_conversation_id |-> current]

reset_conversation(msgs, use_db, current, fails) ==
    [messages |-> IF use_db /\ current # None
                  THEN db_clear_conversation(msgs, current, "messages.delete" \in fails).messages
                  ELSE msgs,
     conversation_history |-> <<>>,
     current_conversation_id |-> None]

save_roadmap(rms, its, use_db, current, title, mermaid_diagram, fails) ==
    IF ~use_db \/ current = None
    THEN [ret |-> None, roadmaps |-> rms, roadmap_items |-> its]
    ELSE db_save_roadmap(rms, its, current, title, mermaid_diagram,
                         parse_mermaid_diagram(mermaid_diagram), fails)

get_roadmaps(rms, use_db, current, fails) ==
    IF ~use_db \/ current = None
    THEN <<>>
    ELSE db_get_roadmaps(rms, current, "roadmaps.select" \in fails)

get_roadmap_progress(its, use_db, roadmap_id, fails) ==
    IF ~use_db
    THEN [total_items |-> 0, completed_items |-> 0,
          progress_percentage |-> [num |-> 0, den |-> 1], items |-> <<>>]
    ELSE db_get_roadmap_progress(its, roadmap_id, "roadmap_items.select" \in fails)

update_item_progress(its, use_db, item_id, completed, fails) ==
    IF ~use_db
    THEN [ret |-> FALSE, roadmap_items |-> its]
    ELSE db_update_item_progress(its, item_id, completed, "roadmap_items.update" \in fails)

-----------------------------------------------------------------------------
(* The state machine *)

\* what the last call was given and what it returned; for a chat turn also
\* whether get_or_create_conversation was called (resolved), what it returned
\* (ret_id), whether it inserted a row (created), and whether the turn follows
\* a reset (prev_conv) or a turn in which that call returned none (after_none)
NoLast == [op |-> "init", session |-> NoSession, fails |-> {},
           conv |-> None, prev_conv |-> None, resolved |-> FALSE, created |-> FALSE,
           ret_id |-> None, roadmap |-> None,
           arg |-> <<>>, ret |-> <<>>, generated |-> FALSE, query |-> NoQuery,
           after_none |-> FALSE, results |-> <<>>,
           diagrams |-> <<>>, clean |-> NoDiagram, items |-> <<>>,
           item_id |-> None, completed |-> FALSE]

\* SupabaseDB.__init__: raises when SUPABASE_URL or SUPABASE_KEY is not set,
\* or when create_client raises.  The arguments say whether each is set and
\* whether create_client succeeds; the result says whether __init__ raised.
SupabaseDB_init(supabase_url, supabase_key, client_created) ==
    ~supabase_url \/ ~supabase_key \/ ~client_created

\* mutant: a store that cannot be opened leaves the client in store mode
GeminiClient_init_keeps_store_mode(api_key, use_db, supabase_url, supabase_key, client_created) ==
    IF ~api_key
    THEN [raised |-> TRUE, use_database |-> FALSE, db |-> FALSE,
          conversation_history |-> <<>>, current_conversation_id |-> None]
    ELSE [raised |-> FALSE, use_database |-> use_db,
          db |-> use_db /\ ~SupabaseDB_init(supabase_url, supabase_key, client_created),
          conversation_history |-> <<>>, current_conversation_id |-> None]

\* GeminiClient.__init__: api_key says whether GEMINI_API_KEY is set, use_db is
\* the argument use_database; db says whether the client holds a store handle.
GeminiClient_init(api_key, use_db, supabase_url, supabase_key, client_created) ==
    IF ~api_key
    THEN [raised |-> TRUE, use_database |-> FALSE, db |-> FALSE,
          conversation_history |-> <<>>, current_conversation_id |-> None]
    ELSE LET opened == use_db /\ ~SupabaseDB_init(supabase_url, supabase_key, client_created)
         IN [raised |-> FALSE, use_database |-> opened, db |-> opened,
             conversation_history |-> <<>>, current_conversation_id |-> None]

\* The state after a construction that did not raise, over an empty store.
\* use_database is true exactly when the client holds a store handle, so the
\* code's tests "self.use_database and self.db" are tests of use_database.
Init ==
    /\ conversations = <<>>
    /\ messages = <<>>
    /\ roadmaps = <<>>
    /\ roadmap_items = <<>>
    /\ \E api_key, use_db, supabase_url, supabase_key, client_created \in BOOLEAN :
         LET c == GeminiClient_init(api_key, use_db, supabase_url, supabase_key, client_created)
         IN /\ ~c.raised
            /\ use_database = c.use_database
            /\ conversation_history = c.conversation_history
            /\ current_conversation_id = c.current_conversation_id
    /\ last = NoLast

\* at most one call site raises in one invocation
Faults(calls) == {{}} \cup {{c} : c \in calls}

ChatFaults == {"conversations.select", "conversations.insert", "conversations.insert.nodata",
               "messages.select", "messages.insert.user", "messages.insert.assistant",
               "generate_content"}

Chat(sessions, faults, user_messages, results) ==
    \E user_message \in user_messages, session_id \in sessions,
       search_results \in results, reply \in Replies, fails \in Faults(faults) :
        LET r == chat(conversations, messages, use_database, conversation_history,
                      current_conversation_id, user_message, session_id,
                      search_results, reply, fails)
        IN /\ Len(r.conversations) <= MaxConversations
           /\ Len(r.messages) <= MaxHistory
           /\ Len(r.conversation_history) <= MaxHistory
           /\ conversations' = r.conversations
           /\ messages' = r.messages
           /\ conversation_history' = r.conversation_history
           /\ current_conversation_id' = r.current_conversation_id
           /\ last' = [NoLast EXCEPT !.op = "chat", !.session = session_id,
                                     !.conv = r.current_conversation_id,
                                     !.prev_conv = IF last.op = "reset" THEN last.conv ELSE None,
                                     !.resolved = r.resolved, !.created = r.created,
                                     !.ret_id = r.resolved_id,
                                     !.arg = user_message, !.ret = r.ret,
                                     !.generated = r.generated,
                                     !.query = r.search_query,
                                     !.results = IF r.search_query # NoQuery
                                                 THEN search_results ELSE <<>>,
                                     !.after_none = /\ last.op = "chat"
                                                    /\ last.resolved
                                                    /\ last.ret_id = None]
           /\ UNCHANGED <<roadmaps, roadmap_items, use_database>>

Reset(faults) ==
    \E fails \in Faults(faults) :
        LET r == reset_conversation(messages, use_database, current_conversation_id, fails)
        IN /\ messages' = r.messages
           /\ conversation_history' = r.conversation_history
           /\ current_conversation_id' = r.current_conversation_id
           /\ last' = [NoLast EXCEPT !.op = "reset", !.fails = fails,
                                     !.conv = current_conversation_id]
           /\ UNCHANGED <<conversations, roadmaps, roadmap_items, use_database>>

ResetConversation == Reset({"messages.delete"})

SaveRoadmap ==
    \E title \in Titles, mermaid_diagram \in Diagrams,
       fails \in Faults({"roadmaps.insert", "roadmaps.insert.nodata", "roadmap_items.insert"}) :
        LET r == save_roadmap(roadmaps, roadmap_items, use_database,
                              current_conversation_id, title, mermaid_diagram, fails)
        IN /\ Len(r.roadmaps) <= MaxRoadmaps
           /\ roadmaps' = r.roadmaps
           /\ roadmap_items' = r.roadmap_items
           /\ last' = [NoLast EXCEPT !.op = "save_roadmap", !.fails = fails,
                                     !.conv = current_conversation_id,
                                     !.ret_id = r.ret,
                                     !.roadmap = IF Len(r.roadmaps) > Len(roadmaps)
                                                 THEN Len(r.roadmaps) ELSE None]
           /\ UNCHANGED <<conversations, messages, client>>

UpdateItemProgress ==
    \E item_id \in 1..(Len(roadmap_items) + 1), completed \in BOOLEAN,
       fails \in Faults({"roadmap_items.update"}) :
        LET r == update_item_progress(roadmap_items, use_database, item_id, completed, fails)
        IN /\ roadmap_items' = r.roadmap_items
           /\ last' = [NoLast EXCEPT !.op = "update_item_progress", !.fails = fails,
                                     !.item_id = item_id, !.completed = completed]
           /\ UNCHANGED <<conversations, messages, roadmaps, client>>

\* SupabaseDB.create_conversation called on the store directly
CreateConversation ==
    \E session_id \in Sessions, fails \in Faults({"conversations.insert", "conversations.insert.nodata"}) :
        LET r == db_create_conversation(conversations, session_id, fails)
        IN /\ Len(r.conversations) <= MaxConversations
           /\ conversations' = r.conversations
           /\ last' = [NoLast EXCEPT !.op = "create_conversation"]
           /\ UNCHANGED <<messages, roadmaps, roadmap_items, client>>

\* The conversation side: chat turns of any session with any fault, resets,
\* and conversations created by other callers of the store.
Next ==
    \/ Chat(Sessions \cup {NoSession}, ChatFaults, UserMessages, {<<>>})
    \/ ResetConversation
    \/ CreateConversation

Spec == Init /\ [][Next]_vars

\* The roadmap side: every operation on roadmaps and their items, with the
\* chat turns and resets of one session that give the client its conversation id.
NextRoadmap ==
    \/ Chat({"s1"}, {}, UserMessages, {<<>>})
    \/ ResetConversation
    \/ SaveRoadmap
    \/ UpdateItemProgress

SpecRoadmap == Init /\ [][NextRoadmap]_vars

\* Messages with and without a search directive: optional leading blank, a
\* prefix in either case or none, and a remainder that may be empty or blank.
SearchMessages ==
    {lead \o prefix \o rest :
        lead \in {<<>>, <<" ">>},
        prefix \in {SearchColon, <<"S", "E", "A", "R", "C", "H", ":">>, SlashSearch, <<"x">>},
        rest \in {<<>>, <<" ">>, <<" ", "q">>, <<"q", " ">>}}

\* what perform_web_search returns: nothing, or one result
SearchResults == {<<>>, <<[title |-> "t", href |-> "u", body |-> "b"]>>}

\* The search side: chat turns of one session over messages that may carry a
\* search directive, and resets.
NextSearch ==
    \/ Chat({"s1"}, {}, SearchMessages, SearchResults)
    \/ ResetConversation

SpecSearch == Init /\ [][NextSearch]_vars

\* The pieces the texts given to the text functions are made of: a fence, a
\* fence with the mermaid tag, a diagram keyword, a node, a line break, a
\* blank, a class definition keyword, a class mark, and a letter whose lower
\* case is two characters.
Tokens ==
    {Backticks, Backticks \o Mermaid, Graph, <<"[", "x", "]">>, <<"\n">>, <<" ">>,
     <<"c", "l", "a", "s", "s", "D", "e", "f">>, ClassMark, <<"u0130">>}

\* every text of at most n tokens
RECURSIVE Texts(_)
Texts(n) ==
    IF n = 0 THEN {<<>>}
    ELSE Texts(n - 1) \cup {t \o k : t \in Texts(n - 1), k \in Tokens}

\* The text functions of the front end are module-level functions of a text:
\* the text is drawn here, held in last.arg, and the client is the one
\* constructed with every credential present.
InitText ==
    /\ conversations = <<>>
    /\ messages = <<>>
    /\ roadmaps = <<>>
    /\ roadmap_items = <<>>
    /\ LET c == GeminiClient_init(TRUE, TRUE, TRUE, TRUE, TRUE)
       IN /\ use_database = c.use_database
          /\ conversation_history = c.conversation_history
          /\ current_conversation_id = c.current_conversation_id
    /\ \E text \in Texts(MaxTokens) : last = [NoLast EXCEPT !.arg = text]

ExtractMermaidDiagrams ==
    /\ last' = [NoLast EXCEPT !.op = "extract_mermaid_diagrams", !.arg = last.arg,
                              !.diagrams = extract_mermaid_diagrams(last.arg)]
    /\ UNCHANGED <<conversations, messages, roadmaps, roadmap_items, client>>

ValidateAndCleanMermaid ==
    /\ last' = [NoLast EXCEPT !.op = "validate_and_clean_mermaid", !.arg = last.arg,
                              !.clean = validate_and_clean_mermaid(last.arg)]
    /\ UNCHANGED <<conversations, messages, roadmaps, roadmap_items, client>>

NextText ==
    \/ ExtractMermaidDiagrams
    \/ ValidateAndCleanMermaid

SpecText == InitText /\ [][NextText]_vars

\* What the model replies to the chat page: no diagram; a fenced block with no
\* diagram keyword; a fenced mermaid block that begins with a keyword.
FrontReplies ==
    {<<"o", "k">>,
     Backticks \o <<"\n">> \o DiagramTwo \o <<"\n">> \o Backticks,
     Backticks \o Mermaid \o <<"\n">> \o Graph \o <<"\n">> \o DiagramTwo \o <<"\n">> \o Backticks}

\* title = f"Roadmap: {prompt[:50]}..." if len(prompt) > 50 else f"Roadmap: {prompt}"
roadmap_title(prompt) ==
    IF Len(prompt) > 50
    THEN <<"Roadmap: ">> \o SubSeq(prompt, 1, 50) \o <<".", ".", ".">>
    ELSE <<"Roadmap: ">> \o prompt

\* The chat input of the home page: one chat turn, then the first diagram
\* extracted from the response is saved as a roadmap when there is one and
\* the client is in store mode.  An exception of save_roadmap is caught.
ChatHandler ==
    \E prompt \in UserMessages, reply \in FrontReplies,
       fails \in Faults({"generate_content", "roadmaps.insert", "roadmap_items.insert"}) :
        LET r == chat(conversations, messages, use_database, conversation_history,
                      current_conversation_id, prompt, "s1", <<>>, reply, fails)
            response == r.ret
            diagrams == extract_mermaid_diagrams(response)
            saved == IF diagrams # <<>> /\ use_database
                     THEN save_roadmap(roadmaps, roadmap_items, use_database,
                                       r.current_conversation_id,
                                       roadmap_title(prompt), diagrams[1], fails)
                     ELSE [ret |-> None, roadmaps |-> roadmaps, roadmap_items |-> roadmap_items]
        IN /\ Len(r.conversations) <= MaxConversations
           /\ Len(r.messages) <= MaxHistory
           /\ Len(r.conversation_history) <= MaxHistory
           /\ Len(saved.roadmaps) <= MaxRoadmaps
           /\ conversations' = r.conversations
           /\ messages' = r.messages
           /\ conversation_history' = r.conversation_history
           /\ current_conversation_id' = r.current_conversation_id
           /\ roadmaps' = saved.roadmaps
           /\ roadmap_items' = saved.roadmap_items
           /\ last' = [NoLast EXCEPT !.op = "chat_handler", !.session = "s1",
                                     !.fails = fails,
                                     !.conv = r.current_conversation_id,
                                     !.arg = prompt, !.ret = response,
                                     !.generated = r.generated,
                                     !.diagrams = diagrams,
                                     !.ret_id = saved.ret,
                                     !.roadmap = IF Len(saved.roadmaps) > Len(roadmaps)
                                                 THEN Len(saved.roadmaps) ELSE None]
           /\ UNCHANGED use_database

\* The home page: chat inputs and the reset button.
NextFront ==
    \/ ChatHandler
    \/ ResetConversation

SpecFront == Init /\ [][NextFront]_vars

\* The pieces the diagrams given to the parser are made of: identifier
\* characters (upper case, lower case, digit, underscore), a label, a label
\* with a blank to strip, the two brackets alone, and an edge.
ParseTokens ==
    {<<"A">>, <<"a">>, <<"1">>, <<"_">>, <<"[", "x", "]">>, <<"[", " ", "y", "]">>,
     <<"[">>, <<"]">>, <<">">>}

\* every diagram of at most n tokens
RECURSIVE ParseTexts(_)
ParseTexts(n) ==
    IF n = 0 THEN {<<>>}
    ELSE ParseTexts(n - 1) \cup {t \o k : t \in ParseTexts(n - 1), k \in ParseTokens}

\* parse_mermaid_diagram reads nothing of the client but its argument: the
\* diagram is drawn here and held in last.arg.
InitParse ==
    /\ conversations = <<>>
    /\ messages = <<>>
    /\ roadmaps = <<>>
    /\ roadmap_items = <<>>
    /\ LET c == GeminiClient_init(TRUE, TRUE, TRUE, TRUE, TRUE)
       IN /\ use_database = c.use_database
          /\ conversation_history = c.conversation_history
          /\ current_conversation_id = c.current_conversation_id
    /\ \E text \in ParseTexts(MaxTokens) : last = [NoLast EXCEPT !.arg = text]

ParseMermaidDiagram ==
    /\ last' = [NoLast EXCEPT !.op = "parse_mermaid_diagram", !.arg = last.arg,
                              !.items = parse_mermaid_diagram(last.arg)]
    /\ UNCHANGED <<conversations, messages, roadmaps, roadmap_items, client>>

NextParse == ParseMermaidDiagram

SpecParse == InitParse /\ [][NextParse]_vars

\* One client over a store whose operations all succeed: chat turns with or
\* without a session id, in which only the generation may fail, and resets.
NextStore ==
    \/ Chat(Sessions \cup {NoSession}, {"generate_content"}, UserMessages, {<<>>})
    \/ Reset({})

SpecStore == Init /\ [][NextStore]_vars

-----------------------------------------------------------------------------
(* Properties of the conversation side (Spec) *)

SessionOf(conversation_id) == conversations[conversation_id].session_id

\* the id of the row inserted last among the conversations of a session, None if none
MostRecentOf(session_id) ==
    LET at == {i \in 1..Len(conversations) : conversations[i].session_id = session_id}
    IN IF at = {} THEN None
       ELSE conversations[CHOOSE i \in at : \A j \in at : j <= i].id

StoredRowsOf(conversation_id) ==
    {i \in 1..Len(messages) : messages[i].conversation_id = conversation_id}

\* the last call was a chat that came right after a reset, carried the session id
\* of the conversation the reset dropped, and got an id from get_or_create_conversation
ChatAfterReset ==
    /\ last.op = "chat"
    /\ last.prev_conv # None
    /\ last.resolved
    /\ last.ret_id # None
    /\ last.session = SessionOf(last.prev_conv)

\* C1 as stated: the first chat after a reset, with the same session id and the
\* store working, runs under a newly created conversation whose id differs from
\* the id that was in use before the reset.
C1_NewConversationAfterReset ==
    ChatAfterReset =>
        /\ last.created
        /\ current_conversation_id # last.prev_conv

\* C1 as amended: the reset drops the id; the first chat after it, with the same
\* session id and the store working, creates no conversation row and runs under
\* the most recently created conversation of that session, which is the one in
\* use before the reset whenever that one is the session's most recent row.
C1_ConversationReusedAfterReset ==
    ChatAfterReset =>
        /\ ~last.created
        /\ current_conversation_id = MostRecentOf(last.session)
        /\ (last.prev_conv = MostRecentOf(last.session)
                => current_conversation_id = last.prev_conv)

C1_Witness ==
    /\ ChatAfterReset
    /\ current_conversation_id = last.prev_conv

\* C2: a reset with the store in use and answering leaves the in-memory history
\* empty and no stored message of the conversation that was current, while the
\* row of that conversation is still in the store.
C2_ResetClearsMessagesKeepsRow ==
    (/\ last.op = "reset"
     /\ use_database
     /\ last.conv # None
     /\ last.fails = {})
        => /\ conversation_history = <<>>
           /\ StoredRowsOf(last.conv) = {}
           /\ db_get_conversation_history(messages, last.conv, FALSE) = <<>>
           /\ \E i \in 1..Len(conversations) : conversations[i].id = last.conv

C2_Witness ==
    /\ last.op = "reset"
    /\ use_database
    /\ last.conv # None
    /\ last.fails = {}
    /\ messages # <<>>

\* C10: get_or_create_conversation is idempotent.  Whenever a call returns an id,
\* calling it again with the same session id returns the same id and inserts
\* nothing; a call that inserted a row left exactly one row for the session; and
\* the id returned is that of the session's most recently created row.
C10_GetOrCreateIdempotent ==
    (/\ last.op = "chat"
     /\ last.resolved
     /\ last.ret_id # None)
        => /\ db_get_or_create_conversation(conversations, last.session, {})
                = [ret |-> last.ret_id, conversations |-> conversations]
           /\ last.created
                => Cardinality({i \in 1..Len(conversations) :
                                    conversations[i].session_id = last.session}) = 1
           /\ last.ret_id = MostRecentOf(last.session)

C10_Witness ==
    /\ last.op = "chat"
    /\ last.resolved
    /\ last.ret_id # None
    /\ ~last.created
    /\ Cardinality({i \in 1..Len(conversations) :
                        conversations[i].session_id = last.session}) >= 2

-----------------------------------------------------------------------------
(* Properties of the roadmap side (SpecRoadmap) *)

ItemRowsOf(its, roadmap_id) == {i \in 1..Len(its) : its[i].roadmap_id = roadmap_id}

Percent(p, num, den) == p.progress_percentage.den # 0
                        /\ p.progress_percentage.num * den = num * p.progress_percentage.den

\* the last call was a save_roadmap whose roadmap insert succeeded and whose
\* bulk insert of a non-empty list of items raised
ItemsInsertFailed ==
    /\ last.op = "save_roadmap"
    /\ last.roadmap # None
    /\ "roadmap_items.insert" \in last.fails
    /\ findall_nodes(roadmaps[last.roadmap].mermaid_diagram, 1) # <<>>

\* C3: a save_roadmap made with the store in use and a current conversation,
\* in which the bulk insert of the items raises, still stores the roadmap row;
\* when the diagram has items to insert it returns none, get_roadmaps lists
\* the row for its conversation and get_roadmap_progress reports 0 items,
\* 0 completed, 0 percent for it.
C3_RoadmapKeptWithoutItems ==
    [][(/\ last'.op = "save_roadmap"
        /\ "roadmap_items.insert" \in last'.fails
        /\ use_database
        /\ current_conversation_id # None)
          => /\ Len(roadmaps') = Len(roadmaps) + 1
             /\ LET R == roadmaps'[Len(roadmaps')]
                    listed == get_roadmaps(roadmaps', use_database', current_conversation_id', {})
                    p == get_roadmap_progress(roadmap_items', use_database', R.id, {})
                IN IF findall_nodes(R.mermaid_diagram, 1) = <<>>
                   THEN last'.ret_id = R.id
                   ELSE /\ last'.ret_id = None
                        /\ R.conversation_id = current_conversation_id
                        /\ \E n \in 1..Len(listed) : listed[n].id = R.id
                        /\ roadmap_items' = roadmap_items
                        /\ p.total_items = 0
                        /\ p.completed_items = 0
                        /\ Percent(p, 0, 1)]_vars

C3_Witness ==
    /\ ItemsInsertFailed
    /\ roadmap_items # <<>>

\* C4: after save_roadmap returns a roadmap id for a diagram with N node
\* declarations, get_roadmap_items on that id yields exactly N items, each
\* with completed false and no completion timestamp, whatever else is stored.
C4_SavedItemsRoundTrip ==
    (last.op = "save_roadmap" /\ last.ret_id # None) =>
        LET items == db_get_roadmap_items(roadmap_items, last.ret_id, FALSE)
            N == Len(findall_nodes(roadmaps[last.ret_id].mermaid_diagram, 1))
        IN /\ Len(items) = N
           /\ {items[n].id : n \in 1..Len(items)}
                = {roadmap_items[i].id : i \in ItemRowsOf(roadmap_items, last.ret_id)}
           /\ \A n \in 1..Len(items) : /\ items[n].completed = FALSE
                                       /\ items[n].completed_at = None

C4_Witness ==
    /\ last.op = "save_roadmap"
    /\ last.ret_id # None
    /\ Cardinality(ItemRowsOf(roadmap_items, last.ret_id)) = 2
    /\ \E i \in 1..Len(roadmap_items) : /\ roadmap_items[i].roadmap_id # last.ret_id
                                        /\ roadmap_items[i].completed

\* C5 as stated: no two items of one roadmap have the same item id.
C5_ItemIdUniqueInRoadmap ==
    \A i, j \in 1..Len(roadmap_items) :
        (i # j /\ roadmap_items[i].roadmap_id = roadmap_items[j].roadmap_id)
            => roadmap_items[i].item_id # roadmap_items[j].item_id

\* C5 as amended: the items of a roadmap are, in order, the node declarations
\* of its diagram (or none, when the items were not inserted), one item per
\* declaration; so two items of a roadmap share an item id exactly when the
\* diagram declares that identifier twice.  What is unique is the row id.
C5_ItemsAreTheNodeDeclarations ==
    /\ \A r \in 1..Len(roadmaps) :
        LET rows == SelectSeq(roadmap_items, LAMBDA it : it.roadmap_id = roadmaps[r].id)
            nodes == findall_nodes(roadmaps[r].mermaid_diagram, 1)
        IN \/ rows = <<>>
           \/ /\ Len(rows) = Len(nodes)
              /\ \A n \in 1..Len(rows) : rows[n].item_id = nodes[n].node_id
    /\ \A i, j \in 1..Len(roadmap_items) :
        i # j => roadmap_items[i].id # roadmap_items[j].id

C5_Witness ==
    \E i, j \in 1..Len(roadmap_items) :
        /\ i # j
        /\ roadmap_items[i].roadmap_id = roadmap_items[j].roadmap_id
        /\ roadmap_items[i].item_id = roadmap_items[j].item_id
        /\ roadmap_items[i].title # roadmap_items[j].title

Fixed(it) == [id |-> it.id, roadmap_id |-> it.roadmap_id, item_id |-> it.item_id,
              title |-> it.title, description |-> it.description]

\* C6: no step changes a saved roadmap's row (title, diagram, conversation),
\* the set of its items, or an item's id, item id, title or description.
C6_RoadmapImmutable ==
    [][/\ Len(roadmaps') >= Len(roadmaps)
       /\ \A r \in 1..Len(roadmaps) :
            /\ roadmaps'[r] = roadmaps[r]
            /\ {Fixed(roadmap_items'[i]) : i \in ItemRowsOf(roadmap_items', roadmaps[r].id)}
                 = {Fixed(roadmap_items[i]) : i \in ItemRowsOf(roadmap_items, roadmaps[r].id)}
            /\ Cardinality(ItemRowsOf(roadmap_items', roadmaps[r].id))
                 = Cardinality(ItemRowsOf(roadmap_items, roadmaps[r].id))]_vars

C6_Witness ==
    /\ Len(roadmaps) >= 2
    /\ last.op = "reset"
    /\ \E i \in ItemRowsOf(roadmap_items, roadmaps[1].id) : roadmap_items[i].completed
    /\ \E i \in ItemRowsOf(roadmap_items, roadmaps[1].id) : ~roadmap_items[i].completed

\* C7: an item has a completion timestamp exactly when it is completed.
C7_StampIffCompleted ==
    \A i \in 1..Len(roadmap_items) :
        (roadmap_items[i].completed_at # None) <=> roadmap_items[i].completed

C7_Witness ==
    /\ last.op = "update_item_progress"
    /\ \E i \in 1..Len(roadmap_items) : roadmap_items[i].completed
                                        /\ roadmap_items[i].completed_at # None
    /\ \E i \in 1..Len(roadmap_items) : ~roadmap_items[i].completed

\* C8: a step in which update_item_progress completes an incomplete item of
\* roadmap R raises what get_roadmap_progress(R) reports as completed_items
\* by exactly one and leaves total_items as it was.
C8_ProgressFollowsUpdate ==
    [][\A i \in 1..Len(roadmap_items) :
         (/\ last'.op = "update_item_progress"
          /\ Len(roadmap_items') = Len(roadmap_items)
          /\ ~roadmap_items[i].completed
          /\ roadmap_items'[i].completed)
            => LET R == roadmap_items[i].roadmap_id
                   before == get_roadmap_progress(roadmap_items, use_database, R, {})
                   after == get_roadmap_progress(roadmap_items', use_database', R, {})
               IN /\ after.completed_items = before.completed_items + 1
                  /\ after.total_items = before.total_items]_vars

C8_Witness ==
    /\ last.op = "update_item_progress"
    /\ \E i \in 1..Len(roadmap_items) :
         /\ roadmap_items[i].completed
         /\ get_roadmap_progress(roadmap_items, use_database,
                                 roadmap_items[i].roadmap_id, {}).completed_items = 1
         /\ get_roadmap_progress(roadmap_items, use_database,
                                 roadmap_items[i].roadmap_id, {}).total_items = 2

\* C9: for every roadmap id, get_roadmap_progress reports as total_items the
\* number of that roadmap's items, as completed_items the number of them that
\* are completed, and as progress_percentage completed_items * 100 /
\* total_items, or 0 when there are no items, without dividing by zero.
C9_ProgressIsTheCount ==
    \A roadmap_id \in 1..(Len(roadmaps) + 1) :
        LET p == get_roadmap_progress(roadmap_items, use_database, roadmap_id, {})
            total == Cardinality(ItemRowsOf(roadmap_items, roadmap_id))
            done == Cardinality({i \in ItemRowsOf(roadmap_items, roadmap_id) :
                                     roadmap_items[i].completed})
        IN /\ p.total_items = total
           /\ p.completed_items = done
           /\ 0 <= p.completed_items /\ p.completed_items <= p.total_items
           /\ IF total > 0 THEN Percent(p, done * 100, total) ELSE Percent(p, 0, 1)

C9_Witness ==
    /\ \E r \in 1..Len(roadmaps) :
         LET p == get_roadmap_progress(roadmap_items, use_database, r, {})
         IN p.total_items = 2 /\ p.completed_items = 1 /\ Percent(p, 50, 1)
    /\ \E r \in 1..Len(roadmaps) :
         get_roadmap_progress(roadmap_items, use_database, r, {}).total_items = 0

-----------------------------------------------------------------------------
(* Properties of a chat turn under failures (Spec) *)

LastTwo(history) == SubSeq(history, Len(history) - 1, Len(history))

\* C11: a chat turn in which generate_content raises returns the error string
\* as its reply, and the client stays usable: a further chat turn answers and
\* keeps the exchange, and reset_conversation empties the history.
C11_GenerationFailureIsAReply ==
    (last.op = "chat" /\ ~last.generated) =>
        /\ last.ret = ErrorReply
        /\ conversation_history # <<>>
        /\ conversation_history[Len(conversation_history)]
             = [role |-> "user", content |-> last.arg]
        /\ \A user_message \in UserMessages, reply \in Replies :
             LET r == chat(conversations, messages, use_database, conversation_history,
                           current_conversation_id, user_message, last.session,
                           <<>>, reply, {})
             IN /\ r.ret = strip(reply)
                /\ Len(r.conversation_history) >= 2
                /\ LastTwo(r.conversation_history)
                     = <<[role |-> "user", content |-> user_message],
                         [role |-> "assistant", content |-> strip(reply)]>>
        /\ LET r == reset_conversation(messages, use_database, current_conversation_id, {})
           IN r.conversation_history = <<>> /\ r.current_conversation_id = None

C11_Witness ==
    /\ last.op = "chat"
    /\ ~last.generated
    /\ last.ret = ErrorReply
    /\ use_database
    /\ current_conversation_id # None
    /\ Len(conversation_history) >= 3

\* C12: a chat turn whose generation succeeds appends the user message and the
\* reply to the in-memory history and returns the reply, whichever call to the
\* store raised during the turn.
C12_TurnSurvivesStoreFailure ==
    (last.op = "chat" /\ last.generated) =>
        /\ last.ret \in {strip(reply) : reply \in Replies}
        /\ Len(conversation_history) >= 2
        /\ LastTwo(conversation_history)
             = <<[role |-> "user", content |-> last.arg],
                 [role |-> "assistant", content |-> last.ret]>>

\* get_or_create_conversation failed in the turn: the store is in use, a
\* session id was given and the client still has no conversation id
C12_Witness ==
    /\ last.op = "chat"
    /\ last.generated
    /\ use_database
    /\ last.session # NoSession
    /\ current_conversation_id = None
    /\ Len(conversation_history) >= 2

\* the last call was a chat turn in which get_or_create_conversation was
\* called and returned none: the store signalled that it is unavailable
StoreUnavailable ==
    /\ last.op = "chat"
    /\ last.resolved
    /\ last.ret_id = None

-----------------------------------------------------------------------------
(* Properties of the client without a store (SpecRoadmap) *)

ZeroProgress == [total_items |-> 0, completed_items |-> 0,
                 progress_percentage |-> [num |-> 0, den |-> 1], items |-> <<>>]

RoadmapFaults == {"roadmaps.insert", "roadmaps.insert.nodata", "roadmap_items.insert",
                  "roadmaps.select", "roadmap_items.select", "roadmap_items.update"}

\* C14: construction raises without the generation credential; with it and
\* without the store's credentials construction succeeds with use_database
\* false and no store handle; and in every state of such a client save_roadmap
\* returns none, get_roadmaps the empty list, get_roadmap_progress all zeros
\* and update_item_progress false, whatever the store would have answered,
\* and the store has never been written.
C14_NoPersistenceMode ==
    /\ \A use_db, supabase_url, supabase_key, client_created \in BOOLEAN :
         /\ GeminiClient_init(FALSE, use_db, supabase_url, supabase_key, client_created).raised
         /\ (~supabase_url \/ ~supabase_key) =>
              LET c == GeminiClient_init(TRUE, use_db, supabase_url, supabase_key, client_created)
              IN ~c.raised /\ ~c.use_database /\ ~c.db
    /\ ~use_database =>
         /\ current_conversation_id = None
         /\ conversations = <<>> /\ messages = <<>> /\ roadmaps = <<>> /\ roadmap_items = <<>>
         /\ \A fails \in SUBSET RoadmapFaults :
              /\ \A title \in Titles, mermaid_diagram \in Diagrams :
                   save_roadmap(roadmaps, roadmap_items, use_database,
                                current_conversation_id, title, mermaid_diagram, fails)
                     = [ret |-> None, roadmaps |-> roadmaps, roadmap_items |-> roadmap_items]
              /\ get_roadmaps(roadmaps, use_database, current_conversation_id, fails) = <<>>
              /\ \A id \in 1..(MaxRoadmaps + 1) :
                   /\ get_roadmap_progress(roadmap_items, use_database, id, fails) = ZeroProgress
                   /\ \A completed \in BOOLEAN :
                        update_item_progress(roadmap_items, use_database, id, completed, fails)
                          = [ret |-> FALSE, roadmap_items |-> roadmap_items]

C14_Witness ==
    /\ ~use_database
    /\ last.op = "save_roadmap"
    /\ last.ret_id = None
    /\ conversation_history # <<>>

-----------------------------------------------------------------------------
(* Item-completion updates (SpecRoadmap) *)

\* C16: in every state, two update_item_progress calls on different item rows
\* leave the same items and the same progress of every roadmap in either
\* order, and a get_roadmap_progress read between them changes nothing: each
\* call writes its own row only.
C16_UpdatesCommute ==
    \A i, j \in 1..Len(roadmap_items) : \A ci, cj \in BOOLEAN :
        i # j =>
            LET ij == db_update_item_progress(
                          db_update_item_progress(roadmap_items, i, ci, FALSE).roadmap_items,
                          j, cj, FALSE).roadmap_items
                ji == db_update_item_progress(
                          db_update_item_progress(roadmap_items, j, cj, FALSE).roadmap_items,
                          i, ci, FALSE).roadmap_items
            IN /\ ij = ji
               /\ \A n \in 1..Len(ij) :
                    ij[n].completed = IF n = i THEN ci ELSE IF n = j THEN cj
                                      ELSE roadmap_items[n].completed
               /\ \A roadmap_id \in 1..Len(roadmaps) :
                    db_get_roadmap_progress(ij, roadmap_id, FALSE)
                      = db_get_roadmap_progress(ji, roadmap_id, FALSE)

C16_Witness ==
    /\ last.op = "update_item_progress"
    /\ Len(roadmaps) >= 2
    /\ \E i, j \in 1..Len(roadmap_items) :
         /\ roadmap_items[i].roadmap_id = roadmap_items[j].roadmap_id
         /\ roadmap_items[i].completed
         /\ ~roadmap_items[j].completed
    /\ \E i, j \in 1..Len(roadmap_items) :
         roadmap_items[i].roadmap_id # roadmap_items[j].roadmap_id

-----------------------------------------------------------------------------
(* The search directive (SpecSearch) *)

\* a directive is detected: the message, lower-cased and stripped, starts
\* with one of the two prefixes
DirectiveDetected(user_message) ==
    \/ startswith(strip(lower(user_message)), SearchColon)
    \/ startswith(strip(lower(user_message)), SlashSearch)

\* the text of the message that follows the prefix, stripped
TextAfterPrefix(user_message) ==
    LET from == SkipWhile(user_message, 1, Whitespace) + Len(SearchColon)
    IN strip(SubSeq(user_message, from, Len(user_message)))

\* C17: in every chat turn whose message carries a search directive, the
\* search is made with exactly the text that follows the prefix, stripped;
\* no search is made when that text is empty; and when the search returns
\* nothing the message kept in the history ends with the no-results note.
C17_SearchQueryIsTextAfterPrefix ==
    (last.op = "chat" /\ DirectiveDetected(last.arg)) =>
        /\ last.query = TextAfterPrefix(last.arg)
        /\ (last.query # NoQuery /\ last.results = <<>>)
             => conversation_history[Len(conversation_history) - 1].content
                  = last.arg \o <<"\n", "\n">> \o NoResultsNote

-----------------------------------------------------------------------------
(* Properties of the text functions (SpecText) *)

Extracted == last.op = "extract_mermaid_diagrams"

\* C18: extract_mermaid_diagrams returns the candidates of the first of its
\* three strategies that yields any, in document order: the fenced mermaid
\* blocks if there is one, else the generic fenced blocks that look like a
\* diagram, else the unfenced flowchart/graph blocks; candidates of different
\* strategies are never returned together.
C18_FirstStrategyOnly ==
    Extracted =>
        last.diagrams =
            IF fenced_mermaid(last.arg) # <<>> THEN fenced_mermaid(last.arg)
            ELSE IF fenced_generic(last.arg) # <<>> THEN fenced_generic(last.arg)
            ELSE inline_blocks(last.arg)

\* a text where the second strategy yields a candidate, the third one would
\* yield another, and only the second one's is returned
C18_Witness ==
    /\ Extracted
    /\ fenced_mermaid(last.arg) = <<>>
    /\ fenced_generic(last.arg) # <<>>
    /\ inline_blocks(last.arg) # <<>>
    /\ last.diagrams = fenced_generic(last.arg)

Sanitized == last.op = "validate_and_clean_mermaid"

\* C19: validate_and_clean_mermaid is idempotent: applied to a diagram it
\* returned, it returns the same diagram, character for character.
C19_SanitizeIdempotent ==
    (Sanitized /\ ~last.clean.none) =>
        validate_and_clean_mermaid(last.clean.cleaned) = last.clean

\* a text made of whitespace and fence markers only
Blank(text) ==
    \A i \in 1..Len(text) : text[i] \in Whitespace \/ text[i] = "grave"

\* the lines of a diagram after its header line hold something
HasBody(cleaned) ==
    \E n \in 2..Len(split(cleaned, "\n")) : strip(split(cleaned, "\n")[n]) # <<>>

\* C20: validate_and_clean_mermaid returns no diagram for a candidate that is
\* empty or made of whitespace and fence markers only, and for every other
\* candidate a non-empty diagram with a non-empty body under its header.
C20_BlankIsInvalid ==
    Sanitized =>
        IF Blank(last.arg) THEN last.clean.none
        ELSE ~last.clean.none /\ last.clean.cleaned # <<>> /\ HasBody(last.clean.cleaned)

-----------------------------------------------------------------------------
(* Properties of the home page (SpecFront) *)

\* the text begins with a diagram-type keyword
BeginsWithKeyword(text) ==
    \/ startswith(lower(text), Flowchart) \/ startswith(lower(text), Graph)
    \/ startswith(lower(text), Sequence) \/ startswith(lower(text), Gantt)

\* the items of a roadmap as the parser gives them, in insertion order
StoredItems(its, roadmap_id) ==
    LET rows == SelectSeq(its, LAMBDA it : it.roadmap_id = roadmap_id)
    IN [n \in 1..Len(rows) |-> [id |-> rows[n].item_id, title |-> rows[n].title,
                                description |-> rows[n].description]]

\* C15: when a chat turn saves a roadmap, the stored diagram is the sanitized
\* form of the first extracted candidate and begins with a diagram keyword,
\* and the stored items are the parse of that sanitized text.
C15_StoredDiagramIsSanitized ==
    (last.op = "chat_handler" /\ last.roadmap # None) =>
        LET canonical == validate_and_clean_mermaid(last.diagrams[1])
            stored == roadmaps[last.roadmap].mermaid_diagram
        IN /\ ~canonical.none
           /\ stored = canonical.cleaned
           /\ BeginsWithKeyword(stored)
           /\ ("roadmap_items.insert" \notin last.fails =>
                 StoredItems(roadmap_items, roadmaps[last.roadmap].id)
                     = parse_mermaid_diagram(canonical.cleaned))

-----------------------------------------------------------------------------
(* Properties of the class definitions and the header (SpecText) *)

\* the lines of color_defs
DefaultClassDefs == split(color_defs, "\n")

\* the lines of a text that are lines of color_defs
AddedClassDefs(text) ==
    SelectSeq(split(text, "\n"), LAMBDA ln : \E n \in 1..Len(DefaultClassDefs) : ln = DefaultClassDefs[n])

\* the five lines of color_defs are the lines 2..6 of the text, and no other
\* line of it is one of them
FiveAfterHeader(text) ==
    /\ Len(split(text, "\n")) >= 1 + Len(DefaultClassDefs)
    /\ SubSeq(split(text, "\n"), 2, 1 + Len(DefaultClassDefs)) = DefaultClassDefs
    /\ AddedClassDefs(text) = DefaultClassDefs
    /\ Len(DefaultClassDefs) = 5

\* C21 as stated: a candidate with a class mark and no class definition gets
\* the five default class definitions directly after the header line of the
\* result, and any other candidate gets none.
C21_CandidateWithMarkGetsClassDefs ==
    (Sanitized /\ ~last.clean.none) =>
        IF contains(last.arg, ClassMark) /\ ~contains(lower(last.arg), Classdef)
        THEN FiveAfterHeader(last.clean.cleaned)
        ELSE AddedClassDefs(last.clean.cleaned) = <<>>

\* C21 (amended): when the candidate, once its fences are removed and its
\* lines are trimmed, holds no class definition, and the returned diagram holds
\* a class mark, the five default class definitions are the lines directly
\* after the header line of the diagram; in every other case no class
\* definition is added.
C21_DiagramWithMarkGetsClassDefs ==
    (Sanitized /\ ~last.clean.none) =>
        IF /\ contains(last.clean.cleaned, ClassMark)
           /\ ~contains(lower(trimmed_lines(last.arg)), Classdef)
        THEN FiveAfterHeader(last.clean.cleaned)
        ELSE AddedClassDefs(last.clean.cleaned) = <<>>

\* a diagram with a class mark under its header got the five class definitions
\* between the header and the line with the mark
C21_Witness ==
    /\ Sanitized
    /\ ~last.clean.none
    /\ contains(last.arg, ClassMark)
    /\ ~contains(lower(last.arg), Classdef)
    /\ FiveAfterHeader(last.clean.cleaned)
    /\ Len(split(last.clean.cleaned, "\n")) > 1 + Len(DefaultClassDefs)

\* C22: every diagram validate_and_clean_mermaid returns begins, in any case,
\* with one of the keywords flowchart, graph, sequence, gantt.
C22_ResultBeginsWithKeyword ==
    (Sanitized /\ ~last.clean.none) => BeginsWithKeyword(last.clean.cleaned)

-----------------------------------------------------------------------------
(* Properties of the parser (SpecParse) *)

Parsed == last.op = "parse_mermaid_diagram"

\* the index after the identifier that starts at i, and the index of the
\* first closing bracket after it
IdentEnd(text, i) == SkipWhile(text, i + 1, WordChar)
LabelEnd(text, i) == IndexFrom(text, IdentEnd(text, i) + 1, "]")

\* a node definition starts at i: an upper-case letter, word characters, an
\* opening bracket, a label of at least one character, a closing bracket
NodeAt(text, i) ==
    /\ text[i] \in Upper
    /\ IdentEnd(text, i) <= Len(text)
    /\ text[IdentEnd(text, i)] = "["
    /\ LabelEnd(text, i) <= Len(text)
    /\ LabelEnd(text, i) > IdentEnd(text, i) + 1

\* the node definitions of the text: those that do not start inside one that
\* starts earlier
NodeTokens(text) ==
    {i \in 1..Len(text) :
        /\ NodeAt(text, i)
        /\ \A p \in 1..(i - 1) : NodeAt(text, p) => LabelEnd(text, p) < i}

\* the n-th smallest element of a set of numbers
Nth(set, n) == CHOOSE i \in set : Cardinality({p \in set : p < i}) = n - 1

\* C23: parse_mermaid_diagram gives one item per node definition of the text,
\* in the order of the text and with no identifier left out for having been
\* seen before; the id of an item is the identifier, its title the label
\* stripped, its description "Complete: " and the title.  Text that is no node
\* definition (an edge, a lower-case name, a bracket alone) gives no item.
C23_OneItemPerNodeToken ==
    Parsed =>
        /\ Len(last.items) = Cardinality(NodeTokens(last.arg))
        /\ \A n \in 1..Len(last.items) :
              LET i == Nth(NodeTokens(last.arg), n)
                  label == SubSeq(last.arg, IdentEnd(last.arg, i) + 1, LabelEnd(last.arg, i) - 1)
              IN /\ last.items[n].id = SubSeq(last.arg, i, IdentEnd(last.arg, i) - 1)
                 /\ last.items[n].title = strip(label)
                 /\ last.items[n].description = CompletePrefix \o strip(label)

\* two node definitions with the same identifier, the first with a label that
\* is stripped: two items
C23_Witness ==
    /\ Parsed
    /\ Len(last.items) = 2
    /\ last.items[1].id = last.items[2].id
    /\ last.items[1].title = <<"y">>
    /\ last.items[2].title = <<"x">>

\* the identifier that starts at i is a whole one: no word character before it
WholeIdentifier(text, i) == i = 1 \/ text[i - 1] \notin WordChar

\* C24: every item id is a whole identifier of the diagram that starts with an
\* upper-case letter: no item comes from the tail of a longer identifier, so
\* a node whose identifier starts with a lower-case letter, a digit or an
\* underscore gives no item.
C24_ItemIdIsWholeIdentifier ==
    Parsed =>
        \A n \in 1..Len(last.items) :
            LET i == Nth(NodeTokens(last.arg), n)
            IN /\ last.items[n].id[1] \in Upper
               /\ WholeIdentifier(last.arg, i)

-----------------------------------------------------------------------------
(* Properties of the sessions and the history (Spec) *)

\* C25: a chat turn of a client in store mode that carries a session id and
\* has a current conversation works under a conversation of that session:
\* the row of the current conversation holds the session id of the call.
C25_ConversationOfTheCallersSession ==
    (last.op = "chat" /\ use_database /\ last.session # NoSession /\ last.conv # None) =>
        conversations[last.conv].session_id = last.session

\* p is a prefix of s
IsPrefix(p, s) == Len(p) <= Len(s) /\ SubSeq(s, 1, Len(p)) = p

\* C26: a chat turn only appends to the conversation history of the client:
\* the history before the turn is a prefix of the history after it.
C26_ChatOnlyAppends ==
    [][last'.op = "chat" => IsPrefix(conversation_history, conversation_history')]_vars

\* C27: the conversation history of the client alternates user, assistant,
\* user, assistant, ... from its first entry.
C27_HistoryAlternates ==
    \A i \in 1..Len(conversation_history) :
        conversation_history[i].role = IF i % 2 = 1 THEN "user" ELSE "assistant"

-----------------------------------------------------------------------------
(* Properties of one client over a store that does not fail (SpecStore) *)

\* C28: after a chat turn or a reset that leaves a conversation id current,
\* the stored messages of that conversation, in the order of their creation,
\* are the conversation history of the client, entry for entry.
C28_StoredLogIsTheHistory ==
    (last.op \in {"chat", "reset"} /\ current_conversation_id # None) =>
        db_get_conversation_history(messages, current_conversation_id, FALSE)
            = conversation_history

\* a turn that resolved a conversation and left its two entries in both the
\* history and the store
C28_Witness ==
    /\ last.op = "chat"
    /\ last.resolved
    /\ current_conversation_id # None
    /\ Len(conversation_history) = 2
    /\ Len(messages) = 2

-----------------------------------------------------------------------------
(* Frame properties of the roadmap side (SpecRoadmap) *)

\* C29: update_item_progress changes nothing but the completed and
\* completed_at fields of the one item whose row id is its argument: every
\* other item, and every roadmap, conversation and message, is as before, and
\* nothing changes when no item has that row id.
C29_UpdateTouchesOneRow ==
    [][last'.op = "update_item_progress" =>
          /\ UNCHANGED <<conversations, messages, roadmaps>>
          /\ Len(roadmap_items') = Len(roadmap_items)
          /\ \A n \in 1..Len(roadmap_items) :
                IF roadmap_items[n].id = last'.item_id
                THEN Fixed(roadmap_items'[n]) = Fixed(roadmap_items[n])
                ELSE roadmap_items'[n] = roadmap_items[n]]_vars

\* an update completed one item while an item of another roadmap with the
\* same node identifier stayed open
C29_Witness ==
    /\ last.op = "update_item_progress"
    /\ last.completed
    /\ \E i, k \in 1..Len(roadmap_items) :
          /\ roadmap_items[i].id = last.item_id
          /\ roadmap_items[i].completed
          /\ roadmap_items[k].roadmap_id # roadmap_items[i].roadmap_id
          /\ roadmap_items[k].item_id = roadmap_items[i].item_id
          /\ ~roadmap_items[k].completed

\* C30: a reset changes no roadmap and no item; right after it get_roadmaps
\* returns the empty list; and while no conversation id is current,
\* save_roadmap writes nothing and returns none, and only a chat turn makes a
\* conversation id current again.
C30_ResetKeepsRoadmapsOutOfReach ==
    [][/\ last'.op = "reset" =>
             /\ UNCHANGED <<roadmaps, roadmap_items>>
             /\ get_roadmaps(roadmaps', use_database', current_conversation_id', {}) = <<>>
       /\ (last'.op = "save_roadmap" /\ current_conversation_id = None) =>
             /\ UNCHANGED <<roadmaps, roadmap_items>>
             /\ last'.ret_id = None
       /\ (current_conversation_id = None /\ current_conversation_id' # None) =>
             last'.op = "chat"]_vars

\* a save_roadmap that returned none and wrote nothing, on a client in store
\* mode that had saved a roadmap and completed an item of it before its reset
C30_Witness ==
    /\ last.op = "save_roadmap"
    /\ last.fails = {}
    /\ last.ret_id = None
    /\ use_database
    /\ current_conversation_id = None
    /\ Len(roadmaps) = 1
    /\ \E i \in 1..Len(roadmap_items) : roadmap_items[i].completed

====
